---- MODULE Spec2Model ----
(***************************************************************************)
(* Model of the FlowTest server (src/server/src/index.ts):                 *)
(*   - the request proxy  PUT /api/v1/request  with its deadline timer,    *)
(*   - the catch block of the proxy as a pure classification function,     *)
(*   - the collection import  POST /api/v1/collection  (createCollection). *)
(* Time is counted in milliseconds since the current proxy execution       *)
(* began; it advances in steps of half the configured timeout.             *)
(***************************************************************************)
EXTENDS Integers, Sequences, FiniteSets, TLC

VARIABLES
    body,        \* req.body of the current PUT /api/v1/request
    pc,          \* position of the proxy handler
    timer,       \* the setTimeout armed by newAbortSignal
    elapsed,     \* ms since the handler began
    err,         \* the error caught by the handler's catch block
    result,      \* what res.status(..).send(..) handed to the caller
    sent,        \* number of responses written to the caller
    cause,       \* what really ended the execution (observer)
    reply,       \* the upstream's answer as received by axios (observer)
    settledBy,   \* the event that settled the axios promise (observer)
    axiosCalls,  \* outbound calls issued by axios(options)
    fetchCalls,  \* outbound calls issued by fetch() in convertBase64ToBlob
    bodySent,    \* encoding of the body axios sent upstream
    decodeFailed,\* convertBase64ToBlob rejected (observer)
    finishedAt,  \* value of elapsed when the caller got the result
    prev,        \* cause and result of the previous execution
    doc,         \* the uploaded OpenAPI file of the current import
    ipc,         \* position of the import handler
    steps,       \* import steps started so far, in order
    store,       \* rows of the Collection repository
    nextId,      \* next id the repository hands out
    idAtStart,   \* nextId when the current import began (observer)
    ires,        \* response of POST /api/v1/collection
    dres         \* status of the last DELETE /api/v1/collection/:id

proxyVars == <<body, pc, timer, elapsed, err, result, sent, cause, reply,
               settledBy, axiosCalls, fetchCalls, bodySent, decodeFailed,
               finishedAt, prev>>
importVars == <<doc, ipc, steps, store, nextId, idAtStart, ires, dres>>
vars == <<body, pc, timer, elapsed, err, result, sent, cause, reply,
          settledBy, axiosCalls, fetchCalls, bodySent, decodeFailed,
          finishedAt, prev, doc, ipc, steps, store, nextId, idAtStart, ires,
          dres>>

\* ---------------------------------------------------------------- bounds
MaxTicks == 4
MaxSaves == 2

\* ------------------------------------------------------------- constants
\* this.timeout = 60000
timeout == 60000

TickMs == timeout \div 2

\* ------------------------------------------------------------ value sets
HeaderKeys == {"Content-type", "Content-Type", "content-type"}
HeaderVals == {"multipart/form-data", "application/json"}

\* req.body.headers: missing, or one content-type entry under some spelling
NoHeaders == [key |-> "", val |-> ""]
HeaderSets == {NoHeaders} \cup [key : HeaderKeys, val : HeaderVals]

\* req.body.data: a JSON payload, or one declared part {key, value, name}
\* whose value is a well-formed data: URL, a data: URL with broken base64,
\* or the URL of a remote host.
JsonData == [part |-> FALSE, value |-> "none"]
DataSets == {JsonData} \cup [part : {TRUE}, value : {"dataOk", "dataBad", "http"}]

Bodies == [headers : HeaderSets, data : DataSets, url : {"ok", "bad"}]

Statuses == {200, 201, 400, 408, 500, 503}

MsgNoHeaders == "Cannot read properties of undefined"
MsgInvalidUrl == "Invalid URL"
MsgFetchFailed == "fetch failed"
MsgNetwork == "Network Error"
MsgCanceled == "canceled"
MsgBadStatus == "Request failed with status code"

TextOf(t) == [kind |-> "text", text |-> t]
UpstreamBodies == {TextOf("pong"), TextOf(MsgInvalidUrl)}

NoBody == [kind |-> "none", text |-> ""]
NoReply == [status |-> 0, body |-> NoBody]
NoResult == [status |-> 0, body |-> NoBody]
NoError == [code |-> "", response |-> NoReply, request |-> FALSE, message |-> ""]
NoTimer == [armed |-> FALSE, due |-> 0, fired |-> FALSE]
NoPrev == [cause |-> "none", result |-> NoResult]
NoDoc == [file |-> FALSE, readable |-> FALSE, valid |-> FALSE, refs |-> "ok",
          parse |-> "ok", title |-> "", saveOk |-> FALSE]

Is2xx(s) == s >= 200 /\ s < 300
HasResponse(e) == e.response # NoReply

\* ------------------------------------------------- the proxy's catch block
\* res.status(c).send(x): the serialised error, error.request, or a string
ErrorJson(e) == [kind |-> "errorJson", text |-> e.code]
RequestJson == [kind |-> "requestJson", text |-> ""]

classifyGeneric(e) ==
    IF e.code = "ERR_CANCELED" THEN [status |-> 408, body |-> ErrorJson(e)]
    ELSE IF HasResponse(e) THEN [status |-> 500, body |-> ErrorJson(e)]
    ELSE IF e.request THEN [status |-> 503, body |-> RequestJson]
    ELSE IF e.message # "" THEN [status |-> 400, body |-> TextOf(e.message)]
    ELSE [status |-> 500, body |-> ErrorJson(e)]

classifyResponseFirst(e) ==
    IF HasResponse(e) THEN [status |-> e.response.status, body |-> e.response.body]
    ELSE IF e.code = "ERR_CANCELED" THEN [status |-> 408, body |-> ErrorJson(e)]
    ELSE IF e.request THEN [status |-> 503, body |-> RequestJson]
    ELSE IF e.message # "" THEN [status |-> 400, body |-> TextOf(e.message)]
    ELSE [status |-> 500, body |-> ErrorJson(e)]

classify(e) ==
    IF e.code = "ERR_CANCELED" THEN [status |-> 408, body |-> ErrorJson(e)]
    ELSE IF HasResponse(e) THEN [status |-> e.response.status, body |-> e.response.body]
    ELSE IF e.request THEN [status |-> 503, body |-> RequestJson]
    ELSE IF e.message # "" THEN [status |-> 400, body |-> TextOf(e.message)]
    ELSE [status |-> 500, body |-> ErrorJson(e)]

\* ----------------------------------------------------------- proxy state
\* req.body.headers['Content-type'] === 'multipart/form-data'
IsMultipart(b) ==
    /\ b.headers # NoHeaders
    /\ b.headers.key = "Content-type"
    /\ b.headers.val = "multipart/form-data"

\* setTimeout(() => abortController.abort(), this.timeout || 0)
newAbortSignal == [armed |-> TRUE,
                   due |-> elapsed + (IF timeout # 0 THEN timeout ELSE 0),
                   fired |-> FALSE]

TimerDue == timer.armed /\ ~timer.fired /\ elapsed >= timer.due

ProxyIdle ==
    /\ pc = "start" /\ timer = NoTimer /\ elapsed = 0 /\ err = NoError
    /\ result = NoResult /\ sent = 0 /\ cause = "none" /\ reply = NoReply
    /\ settledBy = "none" /\ axiosCalls = 0 /\ fetchCalls = 0
    /\ bodySent = "none" /\ decodeFailed = FALSE /\ finishedAt = 0

ImportIdle ==
    /\ doc = NoDoc /\ ipc = "idle" /\ steps = <<>> /\ store = {}
    /\ nextId = 1 /\ idAtStart = 1 /\ ires = NoResult /\ dres = 0

Init ==
    /\ body \in Bodies
    /\ prev = NoPrev
    /\ ProxyIdle
    /\ ImportIdle

\* an exception reaches the catch block of the handler
Throw(e, c) ==
    /\ err' = e
    /\ cause' = c
    /\ pc' = "caught"
    /\ UNCHANGED <<result, sent, finishedAt>>

\* res.status(r.status).send(r.body)
Respond(r) ==
    /\ result' = r
    /\ sent' = sent + 1
    /\ finishedAt' = elapsed
    /\ pc' = "done"

\* options = {...req.body, signal: this.newAbortSignal()}; axios(options)
Dispatch(encoding) ==
    /\ timer' = newAbortSignal
    /\ IF body.url = "bad"
       THEN /\ Throw([code |-> "ERR_INVALID_URL", response |-> NoReply,
                      request |-> FALSE, message |-> MsgInvalidUrl],
                     "MalformedRequest")
            /\ UNCHANGED <<axiosCalls, bodySent>>
       ELSE /\ axiosCalls' = axiosCalls + 1
            /\ bodySent' = encoding
            /\ pc' = "inflight"
            /\ UNCHANGED <<err, cause, result, sent, finishedAt>>

\* the handler up to its first await
Begin ==
    /\ pc = "start"
    /\ IF body.headers = NoHeaders
       THEN /\ Throw([code |-> "", response |-> NoReply, request |-> FALSE,
                      message |-> MsgNoHeaders], "MalformedRequest")
            /\ UNCHANGED <<timer, axiosCalls, fetchCalls, bodySent>>
       ELSE IF IsMultipart(body)
       THEN /\ pc' = "decoding"
            /\ fetchCalls' = fetchCalls + (IF body.data.value = "http" THEN 1 ELSE 0)
            /\ UNCHANGED <<timer, axiosCalls, bodySent, err, cause, result,
                           sent, finishedAt>>
       ELSE /\ Dispatch("passthrough")
            /\ UNCHANGED fetchCalls
    /\ UNCHANGED <<body, elapsed, reply, settledBy, decodeFailed, prev>>
    /\ UNCHANGED importVars

\* await this.convertBase64ToBlob(req.body.data.value) settles
DecodeOutcomes(v) ==
    IF v = "dataOk" THEN {TRUE}
    ELSE IF v = "http" THEN {TRUE, FALSE}
    ELSE {FALSE}

DecodeDoneSwallow ==
    /\ pc = "decoding"
    /\ \E ok \in DecodeOutcomes(body.data.value) :
         /\ decodeFailed' = ~ok
         /\ Dispatch("multipart")
    /\ UNCHANGED <<body, elapsed, reply, settledBy, fetchCalls, prev>>
    /\ UNCHANGED importVars

DecodeDone ==
    /\ pc = "decoding"
    /\ \E ok \in DecodeOutcomes(body.data.value) :
         /\ decodeFailed' = ~ok
         /\ IF ok
            THEN Dispatch("multipart")
            ELSE /\ Throw([code |-> "", response |-> NoReply, request |-> FALSE,
                           message |-> MsgFetchFailed], "MalformedRequest")
                 /\ UNCHANGED <<timer, axiosCalls, bodySent>>
    /\ UNCHANGED <<body, elapsed, reply, settledBy, fetchCalls, prev>>
    /\ UNCHANGED importVars

\* the upstream's response reaches axios
ResponseArrives ==
    /\ pc = "inflight"
    /\ \E s \in Statuses, b \in UpstreamBodies :
         /\ reply' = [status |-> s, body |-> b]
         /\ settledBy' = "response"
         /\ IF Is2xx(s)
            THEN /\ Respond([status |-> 200, body |-> b])
                 /\ cause' = "Success"
                 /\ UNCHANGED err
            ELSE Throw([code |-> IF s >= 500 THEN "ERR_BAD_RESPONSE" ELSE "ERR_BAD_REQUEST",
                        response |-> [status |-> s, body |-> b],
                        request |-> TRUE, message |-> MsgBadStatus],
                       "UpstreamError")
    /\ UNCHANGED <<body, timer, elapsed, axiosCalls, fetchCalls, bodySent,
                   decodeFailed, prev>>
    /\ UNCHANGED importVars

\* the connection fails before any response
TransportError ==
    /\ pc = "inflight"
    /\ settledBy' = "transport"
    /\ Throw([code |-> "ECONNREFUSED", response |-> NoReply, request |-> TRUE,
              message |-> MsgNetwork], "TransportFailure")
    /\ UNCHANGED <<body, timer, elapsed, reply, axiosCalls, fetchCalls,
                   bodySent, decodeFailed, prev>>
    /\ UNCHANGED importVars

\* catch(error) { ... }
CatchBlock ==
    /\ pc = "caught"
    /\ Respond(classify(err))
    /\ UNCHANGED <<body, timer, elapsed, err, cause, reply, settledBy,
                   axiosCalls, fetchCalls, bodySent, decodeFailed, prev>>
    /\ UNCHANGED importVars

TimerFiresLate ==
    /\ TimerDue
    /\ pc \in {"inflight", "done"}
    /\ timer' = [timer EXCEPT !.fired = TRUE]
    /\ IF pc = "inflight"
       THEN /\ settledBy' = "deadline"
            /\ Throw([code |-> "ERR_CANCELED", response |-> NoReply,
                      request |-> TRUE, message |-> MsgCanceled], "Timeout")
       ELSE /\ Respond([status |-> 408, body |-> ErrorJson([code |-> "ERR_CANCELED"])])
            /\ UNCHANGED <<settledBy, err, cause>>
    /\ UNCHANGED <<body, elapsed, reply, axiosCalls, fetchCalls, bodySent,
                   decodeFailed, prev>>
    /\ UNCHANGED importVars

\* the setTimeout callback: abortController.abort()
TimerFires ==
    /\ TimerDue
    /\ pc \in {"inflight", "done"}
    /\ timer' = [timer EXCEPT !.fired = TRUE]
    /\ IF pc = "inflight"
       THEN /\ settledBy' = "deadline"
            /\ Throw([code |-> "ERR_CANCELED", response |-> NoReply,
                      request |-> TRUE, message |-> MsgCanceled], "Timeout")
       ELSE UNCHANGED <<settledBy, err, cause, pc, result, sent, finishedAt>>
    /\ UNCHANGED <<body, elapsed, reply, axiosCalls, fetchCalls, bodySent,
                   decodeFailed, prev>>
    /\ UNCHANGED importVars

\* time passes while the handler waits; a due timer fires before more passes
Tick ==
    /\ \/ pc = "inflight"
       \/ pc = "decoding" /\ body.data.value = "http"
       \/ pc = "done" /\ timer.armed /\ ~timer.fired
    /\ ~TimerDue
    /\ elapsed + TickMs <= MaxTicks * TickMs
    /\ elapsed' = elapsed + TickMs
    /\ UNCHANGED <<body, pc, timer, err, result, sent, cause, reply, settledBy,
                   axiosCalls, fetchCalls, bodySent, decodeFailed, finishedAt, prev>>
    /\ UNCHANGED importVars

\* the next PUT /api/v1/request arrives
NextRequest ==
    /\ pc = "done"
    /\ prev' = [cause |-> cause, result |-> result]
    /\ body' \in Bodies
    /\ pc' = "start" /\ timer' = NoTimer /\ elapsed' = 0 /\ err' = NoError
    /\ result' = NoResult /\ sent' = 0 /\ cause' = "none" /\ reply' = NoReply
    /\ settledBy' = "none" /\ axiosCalls' = 0 /\ fetchCalls' = 0
    /\ bodySent' = "none" /\ decodeFailed' = FALSE /\ finishedAt' = 0
    /\ UNCHANGED importVars

Next ==
    \/ Begin
    \/ DecodeDone
    \/ ResponseArrives
    \/ TransportError
    \/ CatchBlock
    \/ TimerFires
    \/ Tick
    \/ NextRequest

Spec == Init /\ [][Next]_vars

\* ------------------------------------------- the catch block on its own
\* every shape of error object the catch block can be handed
ErrorShapes == [code : {"ERR_CANCELED", "ERR_NETWORK"},
                response : {NoReply} \cup [status : Statuses, body : UpstreamBodies],
                request : BOOLEAN,
                message : {"", MsgNetwork}]

ClassifyInit ==
    /\ body = [headers |-> [key |-> "Content-type", val |-> "application/json"],
               data |-> JsonData, url |-> "ok"]
    /\ prev = NoPrev
    /\ pc = "caught" /\ err \in ErrorShapes
    /\ timer = NoTimer /\ elapsed = 0
    /\ result = NoResult /\ sent = 0 /\ cause = "none" /\ reply = NoReply
    /\ settledBy = "none" /\ axiosCalls = 0 /\ fetchCalls = 0
    /\ bodySent = "none" /\ decodeFailed = FALSE /\ finishedAt = 0
    /\ ImportIdle

ClassifyNext == CatchBlock

ClassifySpec == ClassifyInit /\ [][ClassifyNext]_vars

\* ------------------------------------------------------ collection import
Titles == {"Swagger Petstore - OpenAPI 3.0", "Orders"}

\* the uploaded file and what each step of createCollection does with it
Docs == [file : BOOLEAN, readable : BOOLEAN, valid : BOOLEAN,
         refs : {"ok", "broken"}, parse : {"ok", "fail"},
         title : Titles, saveOk : BOOLEAN]

ParseFailure == [status |-> 500, body |-> TextOf("Failed to parse openapi spec")]

\* catch(err) { return res.status(500).send('Failed to parse openapi spec') }
ImportFail ==
    /\ ires' = ParseFailure
    /\ ipc' = "done"
    /\ UNCHANGED <<store, nextId>>

\* POST /api/v1/collection up to the first await of createCollection
Upload ==
    /\ ipc \in {"idle", "done"}
    /\ nextId <= MaxSaves
    /\ \E d \in Docs :
         /\ doc' = d
         /\ idAtStart' = nextId
         /\ IF ~d.file
            THEN steps' = <<>> /\ ImportFail
            ELSE IF ~d.readable
            THEN steps' = <<"read">> /\ ImportFail
            ELSE /\ steps' = <<"read", "validate">>
                 /\ ipc' = "validating"
                 /\ ires' = NoResult
                 /\ UNCHANGED <<store, nextId>>
    /\ UNCHANGED dres
    /\ UNCHANGED proxyVars

ValidateDoneLenient ==
    /\ ipc = "validating"
    /\ steps' = Append(steps, "resolve")
    /\ ipc' = "resolving"
    /\ UNCHANGED <<ires, store, nextId>>
    /\ UNCHANGED <<doc, idAtStart, dres>>
    /\ UNCHANGED proxyVars

\* await SwaggerParser.validate(path) settles
ValidateDone ==
    /\ ipc = "validating"
    /\ IF doc.valid
       THEN /\ steps' = Append(steps, "resolve")
            /\ ipc' = "resolving"
            /\ UNCHANGED <<ires, store, nextId>>
       ELSE ImportFail /\ UNCHANGED steps
    /\ UNCHANGED <<doc, idAtStart, dres>>
    /\ UNCHANGED proxyVars

\* await JsonRefs.resolveRefs(api) settles
ResolveDone ==
    /\ ipc = "resolving"
    /\ IF doc.refs = "ok"
       THEN /\ steps' = Append(steps, "parse")
            /\ ipc' = "parsing"
            /\ UNCHANGED <<ires, store, nextId>>
       ELSE ImportFail /\ UNCHANGED steps
    /\ UNCHANGED <<doc, idAtStart, dres>>
    /\ UNCHANGED proxyVars

\* await this.collectionUtil.parse(resolvedSpec.resolved) settles
ParseDone ==
    /\ ipc = "parsing"
    /\ IF doc.parse = "ok"
       THEN /\ steps' = Append(steps, "save")
            /\ ipc' = "saving"
            /\ UNCHANGED <<ires, store, nextId>>
       ELSE ImportFail /\ UNCHANGED steps
    /\ UNCHANGED <<doc, idAtStart, dres>>
    /\ UNCHANGED proxyVars

\* await getRepository(Collection).save(newCollection) settles
SaveDone ==
    /\ ipc = "saving"
    /\ IF doc.saveOk
       THEN /\ store' = store \cup {[id |-> nextId, name |-> doc.title]}
            /\ nextId' = nextId + 1
            /\ ires' = [status |-> 200, body |-> TextOf(doc.title)]
            /\ ipc' = "done"
       ELSE ImportFail
    /\ UNCHANGED <<doc, steps, idAtStart, dres>>
    /\ UNCHANGED proxyVars

\* DELETE /api/v1/collection/:id
DeleteCollection ==
    /\ \E id \in 1..MaxSaves :
         IF \E c \in store : c.id = id
         THEN /\ store' = {c \in store : c.id # id}
              /\ dres' = 200
         ELSE /\ dres' = 404
              /\ UNCHANGED store
    /\ UNCHANGED <<doc, ipc, steps, nextId, idAtStart, ires>>
    /\ UNCHANGED proxyVars

ImportInit ==
    /\ body = [headers |-> [key |-> "Content-type", val |-> "application/json"],
               data |-> JsonData, url |-> "ok"]
    /\ prev = NoPrev
    /\ ProxyIdle
    /\ ImportIdle

ImportNext ==
    \/ Upload
    \/ ValidateDone
    \/ ResolveDone
    \/ ParseDone
    \/ SaveDone
    \/ DeleteCollection

ImportSpec == ImportInit /\ [][ImportNext]_vars
\* ------------------------------------------------------------ properties

\* C1: two executions that end in different classes (Success, UpstreamError,
\* TransportFailure, Timeout, MalformedRequest) never hand the caller the
\* same result.
C1_DistinctOutcomes ==
    (pc = "done" /\ prev # NoPrev /\ prev.cause # cause) => prev.result # result

C3_ClassificationPriority ==
    pc = "done" =>
        /\ err.code = "ERR_CANCELED" => result.status = 408
        /\ (err.code # "ERR_CANCELED" /\ HasResponse(err))
               => (result.status = err.response.status /\ result.body = err.response.body)
        /\ (err.code # "ERR_CANCELED" /\ ~HasResponse(err) /\ err.request)
               => result.status = 503
        /\ (err.code # "ERR_CANCELED" /\ ~HasResponse(err) /\ ~err.request /\ err.message # "")
               => result.status = 400

C3_Witness ==
    /\ pc = "done" /\ err.code = "ERR_CANCELED" /\ HasResponse(err) /\ err.request
    /\ result.status = 408

\* C4: an execution that is still running when the deadline (timeout ms
\* after it began) has elapsed ends as Timeout, whatever phase it was in.
C4_DeadlineEveryPhase ==
    (pc = "done" /\ finishedAt > timeout) => cause = "Timeout"

\* C5: one execution issues at most one outbound call, exactly one once the
\* request was constructed, and none while the multipart body is prepared.
C5_SingleOutboundCall ==
    /\ axiosCalls + fetchCalls <= 1
    /\ pc = "decoding" => axiosCalls + fetchCalls = 0
    /\ bodySent # "none" => axiosCalls + fetchCalls = 1

\* C6: when the upstream answered with a 2xx status, the caller gets that
\* status and that body.
C6_SuccessCarriesStatus ==
    (pc = "done" /\ reply # NoReply /\ Is2xx(reply.status))
        => (result.status = reply.status /\ result.body = reply.body)

\* C7: once decoding the binary part has failed, no call to the upstream is
\* ever started and the execution ends as MalformedRequest (400 with the
\* error's message).
C7_DecodeFailureIsMalformed ==
    decodeFailed =>
        /\ axiosCalls = 0
        /\ bodySent = "none"
        /\ pc \in {"caught", "done"}
        /\ pc = "done" => (result.status = 400 /\ result.body = TextOf(err.message))

C7_Witness ==
    pc = "done" /\ decodeFailed /\ body.data.value = "dataBad" /\ sent = 1

C9_BinaryPartIsMultipart ==
    (body.data.part /\ bodySent # "none") => bodySent = "multipart"

\* C10: the import runs read, validate, resolve, parse, save in that order;
\* resolution is never started on a document that failed validation; and an
\* import in which any step fails answers with a failure and adds no
\* collection to the store.
C10_FailedImportAborts ==
    /\ \E n \in 0..5 : steps = SubSeq(<<"read", "validate", "resolve", "parse", "save">>, 1, n)
    /\ (\E i \in 1..Len(steps) : steps[i] = "resolve") => doc.valid
    /\ (ipc = "done" /\ (~doc.file \/ ~doc.readable \/ ~doc.valid \/ doc.refs # "ok"
                          \/ doc.parse # "ok" \/ ~doc.saveOk))
           => (ires = ParseFailure /\ \A c \in store : c.id < idAtStart)

C10_Witness ==
    /\ ipc = "done" /\ doc.file /\ doc.readable /\ doc.valid /\ doc.refs = "broken"
    /\ steps = <<"read", "validate", "resolve">> /\ ires = ParseFailure
    /\ store # {}
====
